---- MODULE Spec2Model ----
(***************************************************************************)
(* Model of the Streamlit commission CRUD application                      *)
(*   src/app.py, src/controllers/app_controller.py,                        *)
(*   src/models/data_model.py, src/views/app_view.py                       *)
(*                                                                         *)
(* The record store is the warehouse table PRODUCTS.CUSTOMERS.COMMISSIONS, *)
(* shared by every browser session.  Each session runs the script of       *)
(* app.main() once per interaction; a script run is split here at its      *)
(* store calls, so that the calls of two sessions interleave as they do    *)
(* against the warehouse.                                                  *)
(*                                                                         *)
(* Text values are tuples of one-character strings, so that the substring  *)
(* and pattern tests of the filters are computed and not assumed.          *)
(* Positions in a view are 1..n here and 0..n-1 in pandas.                 *)
(***************************************************************************)
EXTENDS Integers, Sequences, FiniteSets, TLC

VARIABLES
    store,          \* the COMMISSIONS table: a sequence of rows, in fetch order
    clock,          \* datetime.now(), in ticks
    session_state,  \* st.session_state of each session (the DEFAULT_VALUES keys)
    pc,             \* where each session's script run stands
    sub,            \* locals of handle_form_submission, and what it displayed
    tbl,            \* locals of display_commission_table
    calls,          \* the delete/update calls a session issued in its current pass
    budget          \* the interactions (script runs the user starts) left to a session

vars == <<store, clock, session_state, pc, sub, tbl, calls, budget>>

----------------------------------------------------------------------------
(* Bounds of the model.                                                    *)

NumSessions == 2
MaxRows == 2
MaxClock == 1
MaxMeasure == 1
MaxFilterRows == 2
MaxInteractions == 2

Sessions == 1..NumSessions

----------------------------------------------------------------------------
(* Values.                                                                 *)

\* pandas' missing value in a numeric column (NaN): every ordered comparison
\* with it is false and it differs from everything, itself included.
NaN == 0 - 1

Measures == 1..MaxMeasure

\* The values a COMMISSION_AMOUNT cell can be given in the grid: an amount, or
\* nothing (the cell cleared).
EditableAmounts == Measures \cup {NaN}
Times == 0..MaxClock

EmptyText == << >>

\* st.experimental_user["user_name"] of a session.
UserName(s) == <<"u", IF s = 1 THEN "a" ELSE "b">>

\* Code points order upper case before lower case, and "." before both.
CharOrd(c) ==
    CASE c = "." -> 0
      [] c = "A" -> 1
      [] c = "B" -> 2
      [] c = "a" -> 3
      [] c = "b" -> 4
      [] c = "u" -> 5
      [] OTHER -> 6

\* str.lower() on one character.
Lower(c) ==
    CASE c = "A" -> "a"
      [] c = "B" -> "b"
      [] OTHER -> c

\* Python's < on str: lexicographic by code point.
RECURSIVE TextLess(_, _)
TextLess(x, y) ==
    IF y = << >> THEN FALSE
    ELSE IF x = << >> THEN TRUE
    ELSE IF Head(x) = Head(y) THEN TextLess(Tail(x), Tail(y))
    ELSE CharOrd(Head(x)) < CharOrd(Head(y))

\* x is a literal substring of y, ignoring case.
IsSubstringNoCase(x, y) ==
    \E i \in 0..(Len(y) - Len(x)) :
        \A j \in 1..Len(x) : Lower(x[j]) = Lower(y[i + j])

\* Series.str.contains(pat, case=False, na=False): regex defaults to True, so
\* pat is a regular expression searched anywhere in the value; in the
\* fragment modelled a "." matches any one character and every other
\* character matches itself, ignoring case.
StrContains(pat, value) ==
    \E i \in 0..(Len(value) - Len(pat)) :
        \A j \in 1..Len(pat) :
            pat[j] = "." \/ Lower(pat[j]) = Lower(value[i + j])

\* IEEE comparisons of a COMMISSION_AMOUNT with a bound.
Ge(a, b) == a /= NaN /\ b /= NaN /\ a >= b
Le(a, b) == a /= NaN /\ b /= NaN /\ a =< b

\* Element-wise DataFrame.ne on one cell: NaN differs from NaN.
CellNe(a, b) == a = NaN \/ b = NaN \/ a /= b

\* Element-wise equality as DataFrame.equals sees it: NaN in the same place
\* is equal.
CellEquals(a, b) == a = b

----------------------------------------------------------------------------
(* Rows of the COMMISSIONS table and predicates on them.                   *)

Row(company, program, product, amount, active, updated, user) ==
    [COMPANY_NAME |-> company, PROGRAM_CODE |-> program, PRODUCT_CODE |-> product,
     COMMISSION_AMOUNT |-> amount, IS_ACTIVE |-> active, UPDATED_LAST |-> updated,
     USERNAME |-> user]

\* The natural key of a row: the WHERE clause of every statement by key.
KeyOf(r) == <<r.COMPANY_NAME, r.PROGRAM_CODE, r.PRODUCT_CODE>>

Range(f) == {f[x] : x \in DOMAIN f}

SetMin(S) == CHOOSE x \in S : \A y \in S : x =< y
SetMax(S) == CHOOSE x \in S : \A y \in S : x >= y

\* Series.min() / Series.max() skip NaN, and are NaN when nothing is left.
KnownAmounts(data) == {r.COMMISSION_AMOUNT : r \in Range(data)} \ {NaN}
SeriesMin(data) == IF KnownAmounts(data) = {} THEN NaN ELSE SetMin(KnownAmounts(data))
SeriesMax(data) == IF KnownAmounts(data) = {} THEN NaN ELSE SetMax(KnownAmounts(data))

\* list(commission_data["USERNAME"].unique())
Usernames(data) == {r.USERNAME : r \in Range(data)}

TicksPerDay == 2

\* pd.to_datetime(date): the midnight that starts the day.
ToDatetime(day) == day * TicksPerDay

\* The sidebar as the widgets return it when the user touches none of them.
DefaultFilters(data) ==
    [company_filter |-> EmptyText, program_filter |-> EmptyText,
     product_filter |-> EmptyText,
     company_min_filter |-> SeriesMin(data),
     commission_max_filter |-> SeriesMax(data),
     username_filter |-> EmptyText, date_range |-> << >>]

\* The chain of boolean-mask selections of display_commission_table.  The two
\* number inputs always return a number, so their masks are always applied.
FilterData(data, f) ==
    LET byCompany(r) == StrContains(f.company_filter, r.COMPANY_NAME)
        byProgram(r) == StrContains(f.program_filter, r.PROGRAM_CODE)
        byProduct(r) == StrContains(f.product_filter, r.PRODUCT_CODE)
        byMin(r) == Ge(r.COMMISSION_AMOUNT, f.company_min_filter)
        byMax(r) == Le(r.COMMISSION_AMOUNT, f.commission_max_filter)
        byUser(r) == r.USERNAME = f.username_filter
        byDate(r) == /\ r.UPDATED_LAST >= ToDatetime(f.date_range[1])
                     /\ r.UPDATED_LAST =< ToDatetime(f.date_range[2])
        d1 == IF f.company_filter /= EmptyText THEN SelectSeq(data, byCompany) ELSE data
        d2 == IF f.program_filter /= EmptyText THEN SelectSeq(d1, byProgram) ELSE d1
        d3 == IF f.product_filter /= EmptyText THEN SelectSeq(d2, byProduct) ELSE d2
        d4 == SelectSeq(d3, byMin)
        d5 == SelectSeq(d4, byMax)
        d6 == IF f.username_filter /= EmptyText THEN SelectSeq(d5, byUser) ELSE d5
    IN  IF Len(f.date_range) = 2 THEN SelectSeq(d6, byDate) ELSE d6

\* The whitelist of the "Sort by Column" select box; "" is "no sorting".
SortColumns == {"", "COMPANY_NAME", "PROGRAM_CODE", "PRODUCT_CODE", "IS_ACTIVE"}

\* r1 sorts strictly before r2 on column col, ascending.
KeyLess(col, r1, r2) ==
    CASE col = "COMPANY_NAME" -> TextLess(r1.COMPANY_NAME, r2.COMPANY_NAME)
      [] col = "PROGRAM_CODE" -> TextLess(r1.PROGRAM_CODE, r2.PROGRAM_CODE)
      [] col = "PRODUCT_CODE" -> TextLess(r1.PRODUCT_CODE, r2.PRODUCT_CODE)
      [] col = "IS_ACTIVE" -> (~r1.IS_ACTIVE) /\ r2.IS_ACTIVE
      [] OTHER -> r1.UPDATED_LAST < r2.UPDATED_LAST

\* DataFrame.sort_values(by=col, ascending=asc) with its default
\* kind="quicksort", which is not a stable sort: the result is some ordering
\* of the rows that is sorted on col, rows that tie in any order.
SortValues(data, col, asc) ==
    LET n == Len(data)
        ordered(p) ==
            \A i, j \in 1..n :
                i < j => IF asc THEN ~KeyLess(col, data[p[j]], data[p[i]])
                                ELSE ~KeyLess(col, data[p[i]], data[p[j]])
    IN  {[i \in 1..n |-> data[p[i]]] : p \in {q \in Permutations(1..n) : ordered(q)}}

\* Lines 307-311: the default ordering or the chosen column.
SortStage(data, sort_column) ==
    IF sort_column = "" THEN SortValues(data, "UPDATED_LAST", FALSE)
    ELSE SortValues(data, sort_column, TRUE)

----------------------------------------------------------------------------
(* The form: selection state and its widgets.                              *)

\* The rows of PRODUCTS.CUSTOMERS.MAPPING that feed the cascading selectors.
Mapping == {<<<<"A">>, <<"B">>, <<"a">>>>, <<<<"A">>, <<"B">>, <<"b">>>>}

get_distinct_company_names == {m[1] : m \in Mapping}
get_distinct_program_codes(company) == {m[2] : m \in {x \in Mapping : x[1] = company}}
get_distinct_product_codes(program) == {m[3] : m \in {x \in Mapping : x[2] = program}}

DEFAULT_VALUES ==
    [selected_company |-> EmptyText, selected_program |-> EmptyText,
     selected_products |-> << >>, ninput_commission |-> 0,
     is_active |-> TRUE, reset_flag |-> FALSE]

\* The lists a multiselect over the options can return: distinct options in
\* the order the user picked them.
Selections(options) ==
    {q \in UNION {[1..n -> options] : n \in 0..Cardinality(options)} :
        \A i, j \in DOMAIN q : i /= j => q[i] /= q[j]}

\* The selection states the four cascading widgets can produce: a program
\* only under a company, products only under a program, an amount only when
\* products are selected (number_input has min_value=0.0).
FormStates ==
    {f \in [selected_company : {EmptyText} \cup get_distinct_company_names,
            selected_program : {EmptyText} \cup {m[2] : m \in Mapping},
            selected_products : Selections({m[3] : m \in Mapping}),
            ninput_commission : 0..MaxMeasure,
            is_active : {TRUE}, reset_flag : {FALSE}] :
        /\ f.selected_program /= EmptyText =>
              /\ f.selected_company /= EmptyText
              /\ f.selected_program \in get_distinct_program_codes(f.selected_company)
        /\ f.selected_products /= << >> =>
              /\ f.selected_program /= EmptyText
              /\ Range(f.selected_products) \subseteq get_distinct_product_codes(f.selected_program)
        /\ f.ninput_commission /= 0 => f.selected_products /= << >>}

\* What handle_form_submission holds between its store calls, and what it
\* has put on the page: outcome is "" (nothing yet), "invalid", "duplicate",
\* "saved" or "failed".
NoSubmission ==
    [todo |-> << >>, checked |-> << >>, current_time |-> 0, outcome |-> "",
     duplicate_list |-> << >>, form_reset |-> FALSE]

\* What display_commission_table holds between its store calls.
NoTable ==
    [rendered |-> FALSE,
     filters |-> DefaultFilters(<< >>), sort_column |-> "", filtered_data |-> << >>,
     edited |-> << >>, deleted_indexes |-> {}, changed_rows |-> << >>,
     apply_pressed |-> FALSE]

\* The tables a run of the model starts from: empty, one record, and two
\* records of which one has had its amount cleared in the grid.
InitialStores ==
    {<< >>,
     <<Row(<<"A">>, <<"B">>, <<"a">>, 1, TRUE, 0, UserName(1))>>,
     <<Row(<<"A">>, <<"B">>, <<"a">>, NaN, TRUE, 0, UserName(1)),
       Row(<<"A">>, <<"B">>, <<"b">>, 1, TRUE, 0, UserName(1))>>}

\* A session that may start any number of script runs.
Unlimited == 0 - 1

Spend(b) == IF b = Unlimited THEN b ELSE b - 1

InitSessions ==
    /\ store \in InitialStores
    /\ clock = 0
    /\ session_state = [s \in Sessions |-> DEFAULT_VALUES]
    /\ pc = [s \in Sessions |-> "idle"]
    /\ sub = [s \in Sessions |-> NoSubmission]
    /\ tbl = [s \in Sessions |-> NoTable]
    /\ calls = [s \in Sessions |-> << >>]

\* Every session is open, each for MaxInteractions script runs.
Init ==
    /\ InitSessions
    /\ budget = [s \in Sessions |-> MaxInteractions]

\* One session is open, without a cap on its script runs.
InitSolo ==
    /\ InitSessions
    /\ budget = [s \in Sessions |-> IF s = 1 THEN Unlimited ELSE 0]

\* datetime.now() moves on.
Tick ==
    /\ clock < MaxClock
    /\ clock' = clock + 1
    /\ UNCHANGED <<store, session_state, pc, sub, tbl, calls, budget>>

\* The user works the selectors (get_company_selection .. get_commission_input).
SelectForm(s) ==
    /\ pc[s] = "idle"
    /\ budget[s] /= 0
    /\ budget' = [budget EXCEPT ![s] = Spend(@)]
    /\ \E f \in FormStates :
          /\ f /= session_state[s]
          /\ session_state' = [session_state EXCEPT ![s] = f]
    /\ sub' = [sub EXCEPT ![s] = NoSubmission]
    /\ UNCHANGED <<store, clock, pc, tbl, calls>>

\* initialize_session_state(): every key of DEFAULT_VALUES that is missing
\* from the session state is given its default; a key that is there is left.
initialize_session_state(state) ==
    [key \in DOMAIN DEFAULT_VALUES \cup DOMAIN state |->
        IF key \in DOMAIN state THEN state[key] ELSE DEFAULT_VALUES[key]]

\* A reset without the loop that deletes the keys.
reset_without_delete(state) ==
    initialize_session_state([state EXCEPT !.reset_flag = FALSE])

\* reset_form(): every key of DEFAULT_VALUES is deleted, reset_flag is set to
\* False and the script is rerun, whose initialize_session_state() restores
\* the keys that are missing.
reset_form(state) ==
    LET deleted == [key \in DOMAIN state \ DOMAIN DEFAULT_VALUES |-> state[key]]
        flagged == [key \in DOMAIN deleted \cup {"reset_flag"} |->
                       IF key = "reset_flag" THEN FALSE ELSE deleted[key]]
    IN  initialize_session_state(flagged)

\* The validation without its test of the amount.
FormValidNoAmount(state) ==
    /\ state.selected_company /= EmptyText
    /\ state.selected_program /= EmptyText
    /\ state.selected_products /= << >>

\* The validation of lines 157-162.
FormValid(state) ==
    /\ state.selected_company /= EmptyText
    /\ state.selected_program /= EmptyText
    /\ state.selected_products /= << >>
    /\ state.ninput_commission > 0

\* "Save Entry" is pressed: lines 151-171, up to the first existence check.
SubmitForm(s) ==
    /\ pc[s] = "idle"
    /\ budget[s] /= 0
    /\ budget' = [budget EXCEPT ![s] = Spend(@)]
    /\ IF session_state[s].reset_flag
       THEN /\ session_state' = [session_state EXCEPT ![s] = reset_form(@)]
            /\ sub' = [sub EXCEPT ![s] = NoSubmission]
            /\ UNCHANGED pc
       ELSE IF ~FormValid(session_state[s])
       THEN /\ sub' = [sub EXCEPT ![s] = [NoSubmission EXCEPT !.outcome = "invalid"]]
            /\ UNCHANGED <<session_state, pc>>
       ELSE /\ sub' = [sub EXCEPT ![s] =
                          [NoSubmission EXCEPT !.todo = session_state[s].selected_products,
                                               !.current_time = clock]]
            /\ pc' = [pc EXCEPT ![s] = "checking"]
            /\ UNCHANGED session_state
    /\ UNCHANGED <<store, clock, tbl, calls>>

\* SELECT COUNT(*) ... WHERE the key matches, > 0.
HasEntry(table, company, program, product) ==
    \E i \in DOMAIN table : KeyOf(table[i]) = <<company, program, product>>

\* The existence check with "more than one" for "at least one".
check_more_than_one(table, company, program, product, raises) ==
    /\ ~raises
    /\ Cardinality({i \in DOMAIN table :
                        KeyOf(table[i]) = <<company, program, product>>}) > 1

\* An existence check that reports an entry when its query raises.
check_error_as_existing(table, company, program, product, raises) ==
    raises \/ HasEntry(table, company, program, product)

\* check_existing_entry: the count, or False when the query raises.
check_existing_entry(table, company, program, product, raises) ==
    IF raises THEN FALSE ELSE HasEntry(table, company, program, product)

\* The products of the checks made so far that go to duplicate_entries and
\* to new_entries.
IsDuplicate(c) == c.found
IsNew(c) == ~c.found
duplicate_entries(checked) ==
    LET d == SelectSeq(checked, IsDuplicate) IN [i \in DOMAIN d |-> d[i].product]
new_products(checked) ==
    LET d == SelectSeq(checked, IsNew) IN [i \in DOMAIN d |-> d[i].product]

\* The rows of new_entries (lines 184-196).
new_entries(s, state, checked, current_time) ==
    LET ps == new_products(checked)
    IN  [i \in DOMAIN ps |->
            Row(state.selected_company, state.selected_program, ps[i],
                state.ninput_commission, state.is_active, current_time, UserName(s))]

\* One turn of the loop of lines 174-196: one existence check.  After the
\* last one, lines 198-209: with duplicates the message is shown and
\* reset_form() reruns the script, which ends this run there.
CheckEntry(s) ==
    /\ pc[s] = "checking"
    /\ \E raises \in BOOLEAN :
          LET product == Head(sub[s].todo)
              state == session_state[s]
              exists == HasEntry(store, state.selected_company,
                                 state.selected_program, product)
              found == check_existing_entry(store, state.selected_company,
                                            state.selected_program, product, raises)
              checked == Append(sub[s].checked,
                                [product |-> product, existed |-> exists,
                                 raised |-> raises, found |-> found])
              rest == Tail(sub[s].todo)
          IN  IF rest /= << >>
              THEN /\ sub' = [sub EXCEPT ![s].todo = rest, ![s].checked = checked]
                   /\ UNCHANGED <<session_state, pc>>
              ELSE IF duplicate_entries(checked) /= << >>
              THEN /\ sub' = [sub EXCEPT ![s].todo = rest, ![s].checked = checked,
                                         ![s].outcome = "duplicate",
                                         ![s].duplicate_list = duplicate_entries(checked),
                                         ![s].form_reset = TRUE]
                   /\ session_state' = [session_state EXCEPT ![s] = reset_form(@)]
                   /\ pc' = [pc EXCEPT ![s] = "idle"]
              ELSE /\ sub' = [sub EXCEPT ![s].todo = rest, ![s].checked = checked]
                   /\ pc' = [pc EXCEPT ![s] = "saving"]
                   /\ UNCHANGED session_state
    /\ UNCHANGED <<store, clock, tbl, calls, budget>>

\* An insert that skips the rows whose key the table already holds.
write_if_absent(table, rows) ==
    LET absent(r) == \A i \in DOMAIN table : KeyOf(table[i]) /= KeyOf(r)
    IN  table \o SelectSeq(rows, absent)

\* session.write_pandas(..., overwrite=False): the rows are appended.
write_pandas(table, rows) == table \o rows

\* save_commission_data and lines 216-223: on success the message, then
\* reset_form() reruns the script; on failure the error message.  (The
\* write succeeds in the model only while the table stays within MaxRows.)
SaveEntries(s) ==
    /\ pc[s] = "saving"
    /\ \E raises \in BOOLEAN :
          IF ~raises
          THEN /\ Len(store) + Len(new_products(sub[s].checked)) =< MaxRows
               /\ store' = write_pandas(store, new_entries(s, session_state[s],
                                            sub[s].checked, sub[s].current_time))
               /\ sub' = [sub EXCEPT ![s].outcome = "saved", ![s].form_reset = TRUE]
               /\ session_state' = [session_state EXCEPT ![s] = reset_form(@)]
          ELSE /\ sub' = [sub EXCEPT ![s].outcome = "failed"]
               /\ UNCHANGED <<store, session_state>>
    /\ pc' = [pc EXCEPT ![s] = "idle"]
    /\ UNCHANGED <<clock, tbl, calls, budget>>

----------------------------------------------------------------------------
(* The table: fetch, filter, sort, edit, reconcile.                        *)

\* The texts a sidebar text input is given in the model.
FilterTexts == {EmptyText, <<"a">>, <<".">>}

\* What the sidebar widgets can return over the fetched data.
FilterChoices(data) ==
    {f \in [company_filter : {EmptyText}, program_filter : {EmptyText},
            product_filter : FilterTexts,
            company_min_filter : {SeriesMin(data)},
            commission_max_filter : {SeriesMax(data)},
            username_filter : {EmptyText} \cup Usernames(data),
            date_range : {<< >>}] : TRUE}

\* The rows the filter and sort stages are exercised on.
FilterRows ==
    {Row(company, <<"B">>, <<"a">>, amount, active, updated, UserName(s)) :
        company \in {<<"a">>, <<"A", "b">>}, amount \in EditableAmounts,
        active \in BOOLEAN, updated \in Times, s \in Sessions}

FilterTables == UNION {[1..n -> FilterRows] : n \in 0..MaxFilterRows}

\* The days a date input is given in the model.
Days == 0..(MaxClock \div TicksPerDay)

\* st.sidebar.date_input(..., []): no date, a start alone, or a start and an
\* end not before it.
DateRanges ==
    {<< >>} \cup {<<d>> : d \in Days}
            \cup {r \in {<<d, e>> : d \in Days, e \in Days} : r[1] =< r[2]}

\* What the sidebar widgets can return over the fetched data: any text, any
\* amount (the observed minimum and maximum when left alone), a blank or one
\* of the user names of the data, and a date range.
SidebarChoices(data) ==
    [company_filter : {EmptyText, <<"a">>, <<"a", "b">>, <<".">>},
     program_filter : {EmptyText, <<"b">>},
     product_filter : {EmptyText, <<"b">>},
     company_min_filter : {SeriesMin(data)} \cup (0..MaxMeasure),
     commission_max_filter : {SeriesMax(data)} \cup (0..MaxMeasure),
     username_filter : {EmptyText} \cup Usernames(data),
     date_range : DateRanges]


\* st.data_editor(filtered_data, num_rows="dynamic", disabled=all but the
\* editable columns): the frames it can return.  Deleted rows are dropped,
\* the rows kept hold their index label, and only COMMISSION_AMOUNT and
\* IS_ACTIVE of a kept row can differ.  (Rows added in the grid are not
\* modelled.)
data_editor(filtered_data) ==
    UNION {
        {[i \in kept |-> [filtered_data[i] EXCEPT !.COMMISSION_AMOUNT = cell[i][1],
                                                  !.IS_ACTIVE = cell[i][2]]] :
            cell \in [kept -> EditableAmounts \X BOOLEAN]} :
        kept \in SUBSET (1..Len(filtered_data))}

\* original_index_set - edited_index_set (lines 329-331).
DeletedIndexes(filtered_data, edited) == (1..Len(filtered_data)) \ DOMAIN edited

\* DataFrame.equals: same index, and the same cells with NaN equal to NaN.
FrameEquals(edited, filtered_data) ==
    /\ DOMAIN edited = 1..Len(filtered_data)
    /\ \A i \in DOMAIN edited :
          /\ CellEquals(edited[i].COMMISSION_AMOUNT, filtered_data[i].COMMISSION_AMOUNT)
          /\ CellEquals(edited[i].IS_ACTIVE, filtered_data[i].IS_ACTIVE)

\* edited.ne(filtered_data).any(axis=1) on a kept row: ne aligns the two
\* frames on their index and compares cell by cell; only the two editable
\* columns can hold a cell that differs or is NaN.
RowNe(e, f) ==
    \/ CellNe(e.COMMISSION_AMOUNT, f.COMMISSION_AMOUNT)
    \/ e.IS_ACTIVE /= f.IS_ACTIVE

\* The positions of a set, ascending: the order of iterrows().
RECURSIVE Ascending(_)
Ascending(S) ==
    IF S = {} THEN << >> ELSE <<SetMin(S)>> \o Ascending(S \ {SetMin(S)})

\* A selection of changed rows that takes every kept row.
EveryKeptRow(edited, filtered_data) == Ascending(DOMAIN edited)

\* changed_rows (lines 356-358): the mask is reindexed to the edited frame,
\* so only kept rows are selected.
ChangedRows(edited, filtered_data) ==
    Ascending({i \in DOMAIN edited : RowNe(edited[i], filtered_data[i])})

\* Lines 229-317: the frames the grid can be given over the fetched data.
Views(data) ==
    UNION {SortStage(FilterData(data, f), sort_column) :
              f \in FilterChoices(data), sort_column \in SortColumns}

\* Line 334: the frames differ, or a row is gone.
ChangesDetected(edited, filtered_data, deleted_indexes) ==
    (~FrameEquals(edited, filtered_data)) \/ deleted_indexes /= {}

\* A grid that reconciles as soon as it is edited.
ButtonIgnored(deleted_indexes, changed_rows) ==
    IF deleted_indexes /= {} THEN "deleting"
    ELSE IF changed_rows /= << >> THEN "updating"
    ELSE "idle"

\* Line 337 when the button is not pressed: its block is skipped and the
\* script run ends.
ButtonNotPressed(deleted_indexes, changed_rows) == "idle"

\* A script run in which the grid is edited and "Apply Changes" is not
\* pressed: lines 229-337.  The data is fetched, filtered and sorted, the
\* grid returns the edit pass, and nothing else happens.
EditGrid(s) ==
    /\ pc[s] = "idle"
    /\ budget[s] /= 0
    /\ budget' = [budget EXCEPT ![s] = Spend(@)]
    /\ \E filtered_data \in Views(store) :
       \E edited \in data_editor(filtered_data) :
          LET deleted_indexes == DeletedIndexes(filtered_data, edited)
              changed_rows == ChangedRows(edited, filtered_data)
              next == ButtonNotPressed(deleted_indexes, changed_rows)
          IN  /\ ChangesDetected(edited, filtered_data, deleted_indexes)
              /\ tbl' = [tbl EXCEPT ![s] =
                            [NoTable EXCEPT
                             !.rendered = TRUE,
                             !.filtered_data = filtered_data, !.edited = edited,
                             !.deleted_indexes =
                                 IF next = "idle" THEN {} ELSE deleted_indexes,
                             !.changed_rows =
                                 IF next = "idle" THEN << >> ELSE changed_rows]]
              /\ pc' = [pc EXCEPT ![s] = next]
    /\ calls' = [calls EXCEPT ![s] = << >>]
    /\ sub' = [sub EXCEPT ![s] = NoSubmission]
    /\ UNCHANGED <<store, clock, session_state>>

\* A pass that starts with its updates.
StartPassUpdatesFirst(deleted_indexes, changed_rows) ==
    IF changed_rows /= << >> THEN "updating"
    ELSE IF deleted_indexes /= {} THEN "deleting"
    ELSE "rerun"

\* Where the pass starts (lines 339-359): the loop over the deleted indexes
\* comes first, then the loop over the changed rows, then the rerun.
StartPass(deleted_indexes, changed_rows) ==
    IF deleted_indexes /= {} THEN "deleting"
    ELSE IF changed_rows /= << >> THEN "updating"
    ELSE "rerun"

\* A script run in which "Apply Changes" is pressed: lines 229-337, up to the
\* first delete or update.  The data is fetched, filtered and sorted, the
\* grid returns the edit pass, and the button is only there when the frames
\* differ.
ApplyChanges(s) ==
    /\ pc[s] = "idle"
    /\ budget[s] /= 0
    /\ budget' = [budget EXCEPT ![s] = Spend(@)]
    /\ \E filtered_data \in Views(store) :
       \E edited \in data_editor(filtered_data) :
          LET deleted_indexes == DeletedIndexes(filtered_data, edited)
              changed_rows == ChangedRows(edited, filtered_data)
          IN  /\ ChangesDetected(edited, filtered_data, deleted_indexes)
              /\ tbl' = [tbl EXCEPT ![s] =
                            [NoTable EXCEPT
                             !.rendered = TRUE,
                             !.filtered_data = filtered_data, !.edited = edited,
                             !.deleted_indexes = deleted_indexes,
                             !.changed_rows = changed_rows,
                             !.apply_pressed = TRUE]]
              /\ pc' = [pc EXCEPT ![s] = StartPass(deleted_indexes, changed_rows)]
    /\ calls' = [calls EXCEPT ![s] = << >>]
    /\ sub' = [sub EXCEPT ![s] = NoSubmission]
    /\ UNCHANGED <<store, clock, session_state>>

\* DELETE FROM ... WHERE the key matches.
DeleteByKey(table, key) ==
    LET keep(r) == KeyOf(r) /= key IN SelectSeq(table, keep)

\* delete_commission_data: the row is deleted and (True, ...) returned, or
\* the statement raises and (False, ...) is returned.
delete_commission_data(table, key, raises) ==
    IF raises THEN table ELSE DeleteByKey(table, key)

\* An UPDATE that leaves a row whose last update is not older than its own.
UpdateByKeyIfOlder(table, key, amount, active, updated, user) ==
    [i \in DOMAIN table |->
        IF KeyOf(table[i]) = key /\ table[i].UPDATED_LAST < updated
        THEN [table[i] EXCEPT !.COMMISSION_AMOUNT = amount, !.IS_ACTIVE = active,
                              !.UPDATED_LAST = updated, !.USERNAME = user]
        ELSE table[i]]

\* UPDATE ... SET the four columns WHERE the key matches.
UpdateByKey(table, key, amount, active, updated, user) ==
    [i \in DOMAIN table |->
        IF KeyOf(table[i]) = key
        THEN [table[i] EXCEPT !.COMMISSION_AMOUNT = amount, !.IS_ACTIVE = active,
                              !.UPDATED_LAST = updated, !.USERNAME = user]
        ELSE table[i]]

\* update_ulr_data: as for the delete.
update_ulr_data(table, key, amount, active, updated, user, raises) ==
    IF raises THEN table ELSE UpdateByKey(table, key, amount, active, updated, user)

\* A pass that gives up on its other rows when a delete fails.
AfterDeleteAbort(left, changed_rows, raised) ==
    IF raised THEN "rerun"
    ELSE IF left /= {} THEN "deleting"
    ELSE IF changed_rows /= << >> THEN "updating"
    ELSE "rerun"

\* Where the pass goes after a delete (lines 340-356): the failure tuple is
\* shown and the loop goes on, then to the updates, then to the rerun.
AfterDelete(left, changed_rows, raised) ==
    IF left /= {} THEN "deleting"
    ELSE IF changed_rows /= << >> THEN "updating"
    ELSE "rerun"

\* A pass that ends without a rerun when an update fails.
AfterUpdateNoRerun(left, raised) ==
    IF raised THEN "idle"
    ELSE IF left /= << >> THEN "updating" ELSE "rerun"

\* Where the pass goes after an update (lines 359-378).
AfterUpdate(left, raised) ==
    IF left /= << >> THEN "updating" ELSE "rerun"

\* One turn of the loop of lines 340-353 (a set is iterated in no stated
\* order): the delete by the key of the row at that position of the
\* pre-edit frame, and its message.
DeleteRow(s) ==
    /\ pc[s] = "deleting"
    /\ \E delete_index \in tbl[s].deleted_indexes, raises \in BOOLEAN :
          LET row_to_delete == tbl[s].filtered_data[delete_index]
              left == tbl[s].deleted_indexes \ {delete_index}
          IN  /\ store' = delete_commission_data(store, KeyOf(row_to_delete), raises)
              /\ calls' = [calls EXCEPT ![s] =
                              Append(@, [op |-> "delete", index |-> delete_index,
                                         key |-> KeyOf(row_to_delete),
                                         amount |-> NaN, active |-> FALSE,
                                         message |-> IF raises THEN "error" ELSE "success"])]
              /\ tbl' = [tbl EXCEPT ![s].deleted_indexes = left]
              /\ pc' = [pc EXCEPT ![s] = AfterDelete(left, tbl[s].changed_rows, raises)]
    /\ UNCHANGED <<clock, session_state, sub, budget>>

\* One turn of the loop of lines 359-375: the update by the key of the next
\* changed row of the edited frame, and its message.
UpdateRow(s) ==
    /\ pc[s] = "updating"
    /\ \E raises \in BOOLEAN :
          LET index == Head(tbl[s].changed_rows)
              row == tbl[s].edited[index]
              left == Tail(tbl[s].changed_rows)
          IN  /\ store' = update_ulr_data(store, KeyOf(row), row.COMMISSION_AMOUNT,
                                          row.IS_ACTIVE, clock, UserName(s), raises)
              /\ calls' = [calls EXCEPT ![s] =
                              Append(@, [op |-> "update", index |-> index,
                                         key |-> KeyOf(row),
                                         amount |-> row.COMMISSION_AMOUNT,
                                         active |-> row.IS_ACTIVE,
                                         message |-> IF raises THEN "error" ELSE "success"])]
              /\ tbl' = [tbl EXCEPT ![s].changed_rows = left]
              /\ pc' = [pc EXCEPT ![s] = AfterUpdate(left, raises)]
    /\ UNCHANGED <<clock, session_state, sub, budget>>

\* conditional_rerun() of line 378: the script starts again from the top.
Rerun(s) ==
    /\ pc[s] = "rerun"
    /\ pc' = [pc EXCEPT ![s] = "idle"]
    /\ tbl' = [tbl EXCEPT ![s] = NoTable]
    /\ calls' = [calls EXCEPT ![s] = << >>]
    /\ UNCHANGED <<store, clock, session_state, sub, budget>>

\* A script run in which no button is pressed: lines 229-326, the data is
\* fetched, filtered by the sidebar, sorted and shown.
ViewTable(s) ==
    /\ pc[s] = "idle"
    /\ budget[s] /= 0
    /\ \E f \in SidebarChoices(store), sort_column \in SortColumns :
       \E filtered_data \in SortStage(FilterData(store, f), sort_column) :
          tbl' = [tbl EXCEPT ![s] =
                     [NoTable EXCEPT !.rendered = TRUE, !.filters = f,
                                     !.sort_column = sort_column,
                                     !.filtered_data = filtered_data]]
    /\ budget' = [budget EXCEPT ![s] = Spend(@)]
    /\ UNCHANGED <<store, clock, session_state, pc, sub, calls>>

Next ==
    \/ Tick
    \/ \E s \in Sessions :
          \/ SelectForm(s)
          \/ SubmitForm(s)
          \/ CheckEntry(s)
          \/ SaveEntries(s)
          \/ EditGrid(s)
          \/ ApplyChanges(s)
          \/ DeleteRow(s)
          \/ UpdateRow(s)
          \/ Rerun(s)

Spec == Init /\ [][Next]_vars

SpecSolo == InitSolo /\ [][Next]_vars

\* No existence check of a session's submission has raised, and its insert
\* has not failed.
NoStoreError(s) ==
    /\ \A i \in DOMAIN sub[s].checked : ~sub[s].checked[i].raised
    /\ sub[s].outcome /= "failed"

\* The steps of Next in which no existence check and no insert raises.
NextNoError ==
    \/ Tick
    \/ \E s \in Sessions :
          \/ SelectForm(s)
          \/ SubmitForm(s)
          \/ CheckEntry(s) /\ NoStoreError(s)'
          \/ SaveEntries(s) /\ NoStoreError(s)'
          \/ EditGrid(s)
          \/ ApplyChanges(s)
          \/ DeleteRow(s)
          \/ UpdateRow(s)
          \/ Rerun(s)

\* One session, whose existence checks and inserts all complete.
SpecSoloNoError == InitSolo /\ [][NextNoError]_vars

\* The filter and sort stages alone, over every table of FilterTables.
InitFilter ==
    /\ store \in FilterTables
    /\ clock = 0
    /\ session_state = [s \in Sessions |-> DEFAULT_VALUES]
    /\ pc = [s \in Sessions |-> "idle"]
    /\ sub = [s \in Sessions |-> NoSubmission]
    /\ tbl = [s \in Sessions |-> NoTable]
    /\ calls = [s \in Sessions |-> << >>]
    /\ budget = [s \in Sessions |-> IF s = 1 THEN 1 ELSE 0]

NextFilter == \E s \in Sessions : ViewTable(s)

SpecFilter == InitFilter /\ [][NextFilter]_vars

----------------------------------------------------------------------------
(* Claims.                                                                 *)

\* How many rows of a table hold a key.
KeyCount(table, key) == Cardinality({i \in DOMAIN table : KeyOf(table[i]) = key})

\* A submission whose existence checks are all made.
ChecksDone(s) == sub[s].checked /= << >> /\ sub[s].todo = << >>

Checked(s) == Range(sub[s].checked)

\* The products among the checked ones that had, and had not, a record when
\* they were checked, in the order of the selection.
ProductsWhere(checked, had) ==
    LET pick(c) == c.existed = had
        d == SelectSeq(checked, pick)
    IN  [i \in DOMAIN d |-> d[i].product]

\* C1: a submission of a valid form whose selection holds a product already
\* recorded and a product not yet recorded (no store call failing) ends
\* with the not-yet-recorded products inserted, a duplicate message naming
\* the recorded ones, and the form reset.
C1_MixedSubmissionSaves ==
    \A s \in Sessions :
        ( /\ ChecksDone(s)
          /\ \A c \in Checked(s) : ~c.raised
          /\ \E c \in Checked(s) : c.existed
          /\ \E c \in Checked(s) : ~c.existed
          /\ pc[s] = "idle"
          /\ sub[s].outcome /= "failed" )
        => /\ sub[s].outcome = "saved"
           /\ \A c \in Checked(s) :
                 ~c.existed => \E i \in DOMAIN store : store[i].PRODUCT_CODE = c.product
           /\ sub[s].duplicate_list = ProductsWhere(sub[s].checked, TRUE)
           /\ sub[s].form_reset
           /\ session_state[s] = DEFAULT_VALUES

\* The claim's reading of an incomplete form.
Incomplete(state) ==
    \/ state.selected_company = EmptyText
    \/ state.selected_program = EmptyText
    \/ state.selected_products = << >>
    \/ state.ninput_commission =< 0

\* C3: pressing Save Entry on a form with the company, the program or the
\* products empty, or an amount <= 0, shows the validation error, issues no
\* existence check and no insert, and leaves the store and the selection
\* state as they were.
C3_InvalidFormTouchesNothing ==
    [][\A s \in Sessions :
          (SubmitForm(s) /\ Incomplete(session_state[s]))
          => /\ sub'[s].outcome = "invalid"
             /\ sub'[s].checked = << >>
             /\ pc'[s] = "idle"
             /\ store' = store
             /\ session_state'[s] = session_state[s]]_vars

C3_Witness ==
    \E s \in Sessions :
        /\ sub[s].outcome = "invalid"
        /\ session_state[s].selected_products /= << >>
        /\ session_state[s].ninput_commission = 0
        /\ pc[s] = "idle"

CallsFor(s, op, index) ==
    {k \in DOMAIN calls[s] : calls[s][k].op = op /\ calls[s][k].index = index}

\* The positions the user deleted in the pass, and the kept positions where
\* the user changed a cell.
PassDeleted(s) == (1..Len(tbl[s].filtered_data)) \ DOMAIN tbl[s].edited
PassEdited(s) ==
    {i \in DOMAIN tbl[s].edited :
        \/ tbl[s].edited[i].COMMISSION_AMOUNT /= tbl[s].filtered_data[i].COMMISSION_AMOUNT
        \/ tbl[s].edited[i].IS_ACTIVE /= tbl[s].filtered_data[i].IS_ACTIVE}

\* C2: a pass that ends has issued exactly one delete by the key of each
\* deleted position, exactly one update by the key of each edited position
\* with that row's new amount and active flag, and no delete or update for
\* a position neither deleted nor edited.
C2_OneCallPerTouchedRow ==
    \A s \in Sessions :
        pc[s] = "rerun" =>
            \A i \in 1..Len(tbl[s].filtered_data) :
                /\ Cardinality(CallsFor(s, "delete", i)) = IF i \in PassDeleted(s) THEN 1 ELSE 0
                /\ Cardinality(CallsFor(s, "update", i)) = IF i \in PassEdited(s) THEN 1 ELSE 0
                /\ \A k \in CallsFor(s, "delete", i) :
                      calls[s][k].key = KeyOf(tbl[s].filtered_data[i])
                /\ \A k \in CallsFor(s, "update", i) :
                      /\ calls[s][k].key = KeyOf(tbl[s].filtered_data[i])
                      /\ calls[s][k].amount = tbl[s].edited[i].COMMISSION_AMOUNT
                      /\ calls[s][k].active = tbl[s].edited[i].IS_ACTIVE

C2_Witness ==
    \E s \in Sessions :
        /\ pc[s] = "rerun"
        /\ Len(tbl[s].filtered_data) = 2
        /\ PassDeleted(s) = {1}
        /\ PassEdited(s) = {2}
        /\ Len(calls[s]) = 2

\* C4: a pass that ends has attempted the delete of every deleted row and
\* the update of every edited row and shown one message for each attempt,
\* whichever of them failed.
C4_FailureDoesNotBlockOthers ==
    \A s \in Sessions :
        pc[s] = "rerun" =>
            /\ \A i \in PassDeleted(s) : CallsFor(s, "delete", i) /= {}
            /\ \A i \in PassEdited(s) : CallsFor(s, "update", i) /= {}
            /\ \A k \in DOMAIN calls[s] : calls[s][k].message \in {"success", "error"}

C4_Witness ==
    \E s \in Sessions :
        /\ pc[s] = "rerun"
        /\ PassDeleted(s) /= {}
        /\ PassEdited(s) /= {}
        /\ Len(calls[s]) = 2
        /\ calls[s][1].message = "error"
        /\ calls[s][2].op = "update"

\* A session is in the loops of its reconciliation pass.
Reconciling(s) == pc[s] \in {"deleting", "updating"}

\* C9: a pass leaves its loops only for the rerun, and only when no delete
\* and no update is left to attempt; while one is left, the next attempt
\* can always be made, whatever the outcome of the earlier ones.
C9_RerunAfterAllAttempts ==
    /\ [][\A s \in Sessions :
             (Reconciling(s) /\ ~Reconciling(s)')
             => /\ pc'[s] = "rerun"
                /\ tbl'[s].deleted_indexes = {}
                /\ tbl'[s].changed_rows = << >>]_vars
    /\ [](\A s \in Sessions :
             /\ pc[s] = "deleting" => ENABLED DeleteRow(s)
             /\ pc[s] = "updating" => ENABLED UpdateRow(s)
             /\ pc[s] = "rerun" => ENABLED Rerun(s))

C9_Witness ==
    \E s \in Sessions :
        /\ pc[s] = "rerun"
        /\ \E k \in DOMAIN calls[s] : calls[s][k].message = "error"
        /\ \E k \in DOMAIN calls[s] : calls[s][k].message = "success"

\* C6: nothing in the save looks at the table again: a save that succeeds
\* adds one row for every product its checks reported absent, also when
\* another session has inserted the same key since the check.
C6_SaveAppendsUnchecked ==
    [][\A s \in Sessions :
          (pc[s] = "saving" /\ sub'[s].outcome = "saved")
          => \A c \in Checked(s) :
                ~c.found =>
                    LET key == <<session_state[s].selected_company,
                                 session_state[s].selected_program, c.product>>
                    IN  KeyCount(store', key) = KeyCount(store, key) + 1]_vars

\* Two sessions have each found the key absent, without a store error, and
\* have each saved it: the table holds it twice.
C6_Witness ==
    /\ \A s \in {1, 2} :
          /\ sub[s].outcome = "saved"
          /\ Len(sub[s].checked) = 1
          /\ \A c \in Checked(s) : ~c.existed /\ ~c.raised
    /\ sub[1].checked[1].product = sub[2].checked[1].product
    /\ Len(store) = 2
    /\ KeyOf(store[1]) = KeyOf(store[2])

\* How often a row occurs in a table.
Occurrences(r, table) == Cardinality({i \in DOMAIN table : table[i] = r})

\* C7: the view shown holds no row more often than the fetched set, and
\* each of its rows meets every filter that is set: the three texts as
\* substrings ignoring case, the amount within the two bounds, the user
\* name equal, the last update within the two dates of a full range.
C7_ViewMeetsFilters ==
    \A s \in Sessions :
        tbl[s].rendered =>
            LET f == tbl[s].filters
                view == tbl[s].filtered_data
            IN  \A i \in DOMAIN view :
                    LET r == view[i]
                    IN  /\ Occurrences(r, view) =< Occurrences(r, store)
                        /\ f.company_filter /= EmptyText =>
                              IsSubstringNoCase(f.company_filter, r.COMPANY_NAME)
                        /\ f.program_filter /= EmptyText =>
                              IsSubstringNoCase(f.program_filter, r.PROGRAM_CODE)
                        /\ f.product_filter /= EmptyText =>
                              IsSubstringNoCase(f.product_filter, r.PRODUCT_CODE)
                        /\ r.COMMISSION_AMOUNT /= NaN
                        /\ r.COMMISSION_AMOUNT >= f.company_min_filter
                        /\ r.COMMISSION_AMOUNT =< f.commission_max_filter
                        /\ f.username_filter /= EmptyText => r.USERNAME = f.username_filter
                        /\ Len(f.date_range) = 2 =>
                              /\ r.UPDATED_LAST >= ToDatetime(f.date_range[1])
                              /\ r.UPDATED_LAST =< ToDatetime(f.date_range[2])

\* The sidebar left alone: no text, no user name, the two amounts at the
\* observed minimum and maximum, fewer than two dates.
FiltersUnset(f, data) ==
    /\ f.company_filter = EmptyText
    /\ f.program_filter = EmptyText
    /\ f.product_filter = EmptyText
    /\ f.username_filter = EmptyText
    /\ f.company_min_filter = SeriesMin(data)
    /\ f.commission_max_filter = SeriesMax(data)
    /\ Len(f.date_range) < 2

\* C8: with every filter left unset the view holds every row of the fetched
\* set, the rows without an amount included.
C8_UnsetFiltersKeepEveryRow ==
    \A s \in Sessions :
        (tbl[s].rendered /\ FiltersUnset(tbl[s].filters, store))
        => \A i \in DOMAIN store :
              Occurrences(store[i], tbl[s].filtered_data) = Occurrences(store[i], store)

\* Insertion of a row into a list sorted ascending on col, after the rows it
\* ties with.
RECURSIVE InsertStable(_, _, _)
InsertStable(r, sorted, col) ==
    IF sorted = << >> THEN <<r>>
    ELSE IF KeyLess(col, r, Head(sorted)) THEN <<r>> \o sorted
    ELSE <<Head(sorted)>> \o InsertStable(r, Tail(sorted), col)

\* The stable ascending sort of a list on col: ties keep their order.
RECURSIVE StableSort(_, _)
StableSort(data, col) ==
    IF data = << >> THEN << >>
    ELSE InsertStable(data[Len(data)], StableSort(SubSeq(data, 1, Len(data) - 1), col), col)

\* C10: with no column chosen the view is in descending order of last
\* update; with a column chosen it is the filtered data sorted ascending on
\* that column with ties in fetch order.
C10_SortIsStable ==
    \A s \in Sessions :
        tbl[s].rendered =>
            LET view == tbl[s].filtered_data
            IN  IF tbl[s].sort_column = ""
                THEN \A i, j \in DOMAIN view :
                        i < j => view[i].UPDATED_LAST >= view[j].UPDATED_LAST
                ELSE view = StableSort(FilterData(store, tbl[s].filters), tbl[s].sort_column)

\* C11: after a save that succeeded the session is at the start of its next
\* script run with every key of the selection state (company, program,
\* products, amount, active flag, reset flag) at its default.
C11_DefaultsAfterSave ==
    \A s \in Sessions :
        sub[s].outcome = "saved"
        => /\ pc[s] = "idle"
           /\ \A key \in DOMAIN DEFAULT_VALUES :
                 session_state[s][key] = DEFAULT_VALUES[key]
           /\ DOMAIN session_state[s] = DOMAIN DEFAULT_VALUES

C11_Witness ==
    \E s \in Sessions :
        /\ sub[s].outcome = "saved"
        /\ Len(sub[s].checked) = 2
        /\ \E i \in DOMAIN store :
              /\ store[i].USERNAME = UserName(s)
              /\ store[i].UPDATED_LAST = sub[s].current_time
              /\ store[i].PRODUCT_CODE = sub[s].checked[2].product

\* The last call of a session's pass.
LastCall(cs) == cs[Len(cs)]

\* The rows of a table that hold a key.
RowsOf(table, key) == {table[i] : i \in {j \in DOMAIN table : KeyOf(table[j]) = key}}

\* C12: an update that succeeds looks at nothing but the key: whatever the
\* table holds for the key by then, also values another session committed
\* after this session fetched its view, every row of the key ends with the
\* amount and active flag of this update, and no other row is touched.
C12_LastUpdateWins ==
    [][\A s \in Sessions :
          ( /\ pc[s] = "updating"
            /\ Len(calls'[s]) = Len(calls[s]) + 1
            /\ LastCall(calls'[s]).message = "success" )
          => LET c == LastCall(calls'[s])
             IN  /\ Len(store') = Len(store)
                 /\ \A i \in DOMAIN store :
                       IF KeyOf(store[i]) = c.key
                       THEN /\ store'[i].COMMISSION_AMOUNT = c.amount
                            /\ store'[i].IS_ACTIVE = c.active
                            /\ store'[i].USERNAME = UserName(s)
                       ELSE store'[i] = store[i]]_vars

\* Both sessions fetched the same view, each changed the same row in its
\* own way and each update succeeded; session 2's came last, and the table
\* holds its values and nothing of session 1's.
C12_Witness ==
    /\ pc[1] = "rerun" /\ pc[2] = "rerun"
    /\ tbl[1].filtered_data = tbl[2].filtered_data
    /\ Len(calls[1]) = 1 /\ Len(calls[2]) = 1
    /\ \A s \in {1, 2} : calls[s][1].op = "update" /\ calls[s][1].message = "success"
    /\ calls[1][1].key = calls[2][1].key
    /\ calls[1][1].active /= calls[2][1].active
    /\ calls[1][1].amount /= calls[2][1].amount
    /\ \A r \in RowsOf(store, calls[2][1].key) :
          /\ r.USERNAME = UserName(2)
          /\ r.COMMISSION_AMOUNT = calls[2][1].amount
          /\ r.IS_ACTIVE = calls[2][1].active
    /\ RowsOf(store, calls[2][1].key) /= {}

\* C13: in a pass, no delete is issued after an update, and when the first
\* update is due every deleted row has had its delete.
C13_DeletesBeforeUpdates ==
    \A s \in Sessions :
        /\ \A j, k \in DOMAIN calls[s] :
              (j < k /\ calls[s][k].op = "delete") => calls[s][j].op = "delete"
        /\ (pc[s] = "updating" \/ \E k \in DOMAIN calls[s] : calls[s][k].op = "update")
           => /\ tbl[s].deleted_indexes = {}
              /\ \A i \in PassDeleted(s) : CallsFor(s, "delete", i) /= {}

C13_Witness ==
    \E s \in Sessions :
        /\ pc[s] = "updating"
        /\ PassDeleted(s) /= {}
        /\ Len(calls[s]) = 1
        /\ calls[s][1].op = "delete"
        /\ tbl[s].changed_rows /= << >>

\* The grid of a session's script run differs from the view it was given.
GridDiffers(s) == PassDeleted(s) /= {} \/ PassEdited(s) /= {}

\* C14: a delete or an update is issued only in a script run in which the
\* grid differs from the view and "Apply Changes" was pressed; a run in
\* which the grid is edited and the button is not pressed issues no call
\* and leaves the table as it was.
C14_NoCallWithoutApply ==
    /\ [](\A s \in Sessions :
             (Reconciling(s) \/ calls[s] /= << >>)
             => tbl[s].apply_pressed /\ GridDiffers(s))
    /\ [][\A s \in Sessions :
             /\ (pc[s] = "idle" /\ tbl'[s] /= tbl[s] /\ ~tbl'[s].apply_pressed)
                => /\ store' = store
                   /\ calls'[s] = << >>
                   /\ pc'[s] = "idle"
             /\ (\E i \in DOMAIN store : \A j \in DOMAIN store' : store'[j] /= store[i])
                => \E t \in Sessions : Reconciling(t) /\ tbl[t].apply_pressed]_vars

\* A row was removed and another changed in the grid, the button was not
\* pressed, and the table still holds both rows as they were.
C14_Witness ==
    \E s \in Sessions :
        /\ pc[s] = "idle"
        /\ tbl[s].rendered
        /\ ~tbl[s].apply_pressed
        /\ PassDeleted(s) /= {}
        /\ PassEdited(s) /= {}
        /\ calls[s] = << >>
        /\ \A i \in DOMAIN tbl[s].filtered_data :
              \E j \in DOMAIN store : store[j] = tbl[s].filtered_data[i]

\* C15: with one session whose existence checks and inserts all complete,
\* and a table that starts with no key held twice, no key is ever held by
\* two rows.
C15_KeysStayUnique ==
    \A i, j \in DOMAIN store : KeyOf(store[i]) = KeyOf(store[j]) => i = j

\* A product was saved beside the record of another, after a submission of
\* the recorded product was turned down.
C15_Witness ==
    /\ Len(store) = 2
    /\ sub[1].outcome = "saved"
    /\ Len(sub[1].checked) = 1
    /\ KeyOf(store[2]) = <<store[1].COMPANY_NAME, store[1].PROGRAM_CODE,
                           sub[1].checked[1].product>>
    /\ store[2].UPDATED_LAST = sub[1].current_time
    /\ store[1].PRODUCT_CODE /= store[2].PRODUCT_CODE

\* C16: an existence check that raises answers "no entry": its product goes
\* to the insert batch and not to the duplicate list, whether or not the
\* table holds it, and a save of that batch that succeeds adds its row.
C16_CheckErrorMeansNew ==
    /\ [](\A s \in Sessions :
             \A i \in DOMAIN sub[s].checked :
                 LET c == sub[s].checked[i]
                 IN  c.raised
                     => /\ ~c.found
                        /\ c.product \in Range(new_products(sub[s].checked))
                        /\ c.product \notin Range(duplicate_entries(sub[s].checked))
                        /\ c.product \notin Range(sub[s].duplicate_list))
    /\ [][\A s \in Sessions :
             (pc[s] = "saving" /\ sub'[s].outcome = "saved")
             => \A c \in Checked(s) :
                   c.raised
                   => \E i \in DOMAIN store' :
                         /\ i > Len(store)
                         /\ store'[i] = Row(session_state[s].selected_company,
                                             session_state[s].selected_program,
                                             c.product,
                                             session_state[s].ninput_commission,
                                             session_state[s].is_active,
                                             sub[s].current_time, UserName(s))]_vars

\* The check of a recorded product raised and the product was saved again.
C16_Witness ==
    \E s \in Sessions :
        /\ sub[s].outcome = "saved"
        /\ \E c \in Checked(s) :
              /\ c.raised
              /\ c.existed
              /\ \E i, j \in DOMAIN store :
                    /\ i < j
                    /\ store[i].PRODUCT_CODE = c.product
                    /\ store[j].PRODUCT_CODE = c.product

====
